---- MODULE Spec2Model ----
(***************************************************************************)
(* Model of dunedaq::fakehlf::FakeHLF_PseudoCode (FakeHLF_PseudoCode.cpp). *)
(*                                                                         *)
(* Two threads: the command thread (do_start / do_stop) and the worker     *)
(* thread running do_work(running_flag).  The only shared state is the     *)
(* atomic running_flag.  Every read of the flag, every invocation of an    *)
(* Endpoint operation and every return of one (success or                  *)
(* TransportTimeoutExpired) is a separate step of the worker, so that a    *)
(* stop can fall between a flag check and the call it guards, or while a   *)
(* call is in flight.                                                      *)
(*                                                                         *)
(* thread_.start_working_thread() sets the flag and creates the thread;    *)
(* thread_.stop_working_thread() clears the flag and joins the thread      *)
(* (the thread helper do_work is bound to in the constructor, line 30).    *)
(*                                                                         *)
(* init() constructs the three Endpoints in order and is left by the first  *)
(* construction that throws; do_start follows a successful init().         *)
(* The Trigger Records are modelled by their contents: the data source     *)
(* delivers any of Payloads, and the logs record what was received and     *)
(* what was sent.                                                          *)
(*                                                                         *)
(* Line 132 of the source increments "requestTRCount"; the counter         *)
(* declared at line 100 is "requestedTRCount".  The model has the one      *)
(* counter, under its declared name.                                       *)
(***************************************************************************)
EXTENDS Integers, Naturals, Sequences, FiniteSets, TLC

\* ---- bounds of the model ----
MaxBatch == 2   \* batch sizes 1..MaxBatch (the source fixes the constant at 1)
MaxOps   == 5   \* Endpoint calls begun while running, per loop execution
MaxRuns  == 2   \* start/stop cycles
MaxPayload == 2 \* distinct Trigger Record contents the data source can deliver

VARIABLES
  \* shared state and thread positions
  running_flag,                     \* std::atomic<bool>& running_flag
  ctl,                              \* position of the command thread
  runs,                             \* number of do_start calls so far
  pc,                               \* position of the worker thread in do_work
  \* do_work locals
  TRsToRequestEachTime,
  requestCount,
  requestedTRCount,
  receivedCount,
  sentCount,
  trigRecLeftToReceive,
  trigRecWasSuccessfullyReceived,
  trigRecWasSuccessfullySent,
  \* observations of the current loop execution (reset by do_start)
  warnings,                         \* ers::warning events emitted
  summaries,                        \* ers::info(ProgressUpdate) events emitted
  opsStarted,                       \* Endpoint calls begun
  opsSinceStop,                     \* Endpoint calls begun with the flag cleared
  inFlightAtStop,                   \* an Endpoint call was in flight when the flag was cleared
  reqTimeouts,                      \* TransportTimeoutExpired from requestSender_->send
  recvTimeouts,                     \* TransportTimeoutExpired from dataReceiver_->receive
  sendTimeouts,                     \* TransportTimeoutExpired from resultSender_->send
  recvDelivered,                    \* successful returns of dataReceiver_->receive
  lastStepReadTrue,                 \* the worker's last step was a flag read that saw true
  cancelSeenAt,                     \* the check at which the worker first read the flag as false
  cancelledTimeout,                 \* a timeout returned with the flag cleared: which call
  cancelledWarned,                  \* warnings emitted for timeouts that returned with the flag cleared
  liveThreads,                      \* threads created by do_start that have not returned from do_work
  opsInFlight,                      \* Endpoint calls begun and not yet returned
  \* the Trigger Records
  trigRec,                          \* TriggerRecord trigRec (line 140)
  receivedLog,                      \* contents delivered by dataReceiver_->receive, in order
  sentLog,                          \* contents accepted by resultSender_->send, in order
  \* the members set by init()
  requestSender_,
  dataReceiver_,
  resultSender_,
  initError,                        \* the InvalidEndpointFatalError init() threw, if any
  constructCalls                    \* Endpoint constructions attempted by init()

shared == <<running_flag, ctl, runs, pc>>
locals == <<TRsToRequestEachTime, requestCount, requestedTRCount, receivedCount, sentCount,
            trigRecLeftToReceive, trigRecWasSuccessfullyReceived, trigRecWasSuccessfullySent>>
counters == <<requestCount, requestedTRCount, receivedCount, sentCount>>
callObs == <<opsStarted, opsSinceStop>>
timeoutObs == <<warnings, reqTimeouts, recvTimeouts, sendTimeouts, cancelledTimeout, cancelledWarned>>
obs == <<warnings, summaries, opsStarted, opsSinceStop, inFlightAtStop, reqTimeouts, recvTimeouts, sendTimeouts,
         recvDelivered, lastStepReadTrue, cancelSeenAt, cancelledTimeout, cancelledWarned>>
threadObs == <<liveThreads, opsInFlight>>
itemObs == <<trigRec, receivedLog, sentLog>>
endpoints == <<requestSender_, dataReceiver_, resultSender_, initError, constructCalls>>
vars == <<shared, locals, obs, threadObs, itemObs, endpoints>>

\* Contents of Trigger Records: a default-constructed record and the delivered ones.
EmptyRecord == 0
Payloads == 1..MaxPayload

\* States of a unique_ptr member: as set by the constructor, and after reset(new ...).
NullPtr == "nullptr"
Constructed == "constructed"

CallPcs == {"req_call", "recv_call", "send_call"}
InFlightPcs == {"req_inflight", "recv_inflight", "send_inflight"}
WorkerPcs == {"idle", "entry", "outer_check", "req_call", "req_inflight", "owed_check",
              "recv_check", "recv_call", "recv_inflight", "send_check", "send_call",
              "send_inflight", "exiting", "done"}

\* The first check at which the worker reads the flag as false.
ObserveCancel(where) == IF cancelSeenAt = "none" THEN where ELSE cancelSeenAt

\* An Endpoint call may begin: the bound applies only while the loop is running.
MayCall == opsStarted < MaxOps \/ ~running_flag

\* Bookkeeping of one Endpoint call being begun.
BeginCall ==
  /\ opsStarted' = opsStarted + 1
  /\ opsSinceStop' = IF running_flag THEN opsSinceStop ELSE opsSinceStop + 1
  /\ lastStepReadTrue' = FALSE
  /\ opsInFlight' = opsInFlight + 1

\* Bookkeeping of one Endpoint call returning.
EndCall == opsInFlight' = opsInFlight - 1

\* Bookkeeping of a timeout whose catch block emits (warns = 1) or does not emit (0) a warning.
NoteTimeout(which, warns) ==
  /\ warnings' = warnings + warns
  /\ cancelledTimeout' = IF running_flag THEN cancelledTimeout ELSE which
  /\ cancelledWarned' = IF running_flag THEN cancelledWarned ELSE cancelledWarned + warns
  /\ opsInFlight' = opsInFlight - 1

Init ==
  /\ running_flag = FALSE
  /\ ctl = "constructed"
  /\ runs = 0
  /\ pc = "idle"
  /\ TRsToRequestEachTime \in 1..MaxBatch
  /\ requestCount = 0
  /\ requestedTRCount = 0
  /\ receivedCount = 0
  /\ sentCount = 0
  /\ trigRecLeftToReceive = 0
  /\ trigRecWasSuccessfullyReceived = FALSE
  /\ trigRecWasSuccessfullySent = FALSE
  /\ warnings = 0
  /\ summaries = 0
  /\ opsStarted = 0
  /\ opsSinceStop = 0
  /\ inFlightAtStop = FALSE
  /\ reqTimeouts = 0
  /\ recvTimeouts = 0
  /\ sendTimeouts = 0
  /\ recvDelivered = 0
  /\ lastStepReadTrue = FALSE
  /\ cancelSeenAt = "none"
  /\ cancelledTimeout = "none"
  /\ cancelledWarned = 0
  /\ liveThreads = 0
  /\ opsInFlight = 0
  /\ trigRec = EmptyRecord
  /\ receivedLog = <<>>
  /\ sentLog = <<>>
  /\ requestSender_ = NullPtr
  /\ dataReceiver_ = NullPtr
  /\ resultSender_ = NullPtr
  /\ initError = "none"
  /\ constructCalls = 0

\* ---- command thread ----

\* Variant of init: a failed construction is reported but the later Endpoints are still constructed.
init_continue ==
  /\ ctl = "constructed"
  /\ \E failing \in {"none", "request", "data", "result"}:
       /\ requestSender_' = IF failing = "request" THEN NullPtr ELSE Constructed
       /\ dataReceiver_' = IF failing = "data" THEN NullPtr ELSE Constructed
       /\ resultSender_' = IF failing = "result" THEN NullPtr ELSE Constructed
       /\ constructCalls' = 3
       /\ initError' = CASE failing = "none" -> "none"
                          [] failing = "request" -> "request connection"
                          [] failing = "data" -> "data source address"
                          [] failing = "result" -> "result destination address"
       /\ ctl' = IF failing = "none" THEN "initialized" ELSE "init_failed"
  /\ UNCHANGED <<running_flag, runs, pc, locals, obs, threadObs, itemObs>>

\* init(): the three Endpoints are constructed in order (lines 48, 57, 66); the first
\* construction that throws ends init() with an InvalidEndpointFatalError (52, 61, 70).
init ==
  /\ ctl = "constructed"
  /\ \E failing \in {"none", "request", "data", "result"}:
       /\ requestSender_' = IF failing = "request" THEN NullPtr ELSE Constructed
       /\ dataReceiver_' = IF failing \in {"request", "data"} THEN NullPtr ELSE Constructed
       /\ resultSender_' = IF failing = "none" THEN Constructed ELSE NullPtr
       /\ constructCalls' = CASE failing = "request" -> 1
                               [] failing = "data" -> 2
                               [] OTHER -> 3
       /\ initError' = CASE failing = "none" -> "none"
                          [] failing = "request" -> "request connection"
                          [] failing = "data" -> "data source address"
                          [] failing = "result" -> "result destination address"
       /\ ctl' = IF failing = "none" THEN "initialized" ELSE "init_failed"
  /\ UNCHANGED <<running_flag, runs, pc, locals, obs, threadObs, itemObs>>

\* do_start: start_working_thread() sets the flag and creates the thread.
do_start ==
  /\ ctl \in {"initialized", "stopped"}
  /\ runs < MaxRuns
  /\ running_flag' = TRUE
  /\ ctl' = "running"
  /\ runs' = runs + 1
  /\ pc' = "entry"
  /\ warnings' = 0
  /\ summaries' = 0
  /\ opsStarted' = 0
  /\ opsSinceStop' = 0
  /\ inFlightAtStop' = FALSE
  /\ reqTimeouts' = 0
  /\ recvTimeouts' = 0
  /\ sendTimeouts' = 0
  /\ recvDelivered' = 0
  /\ lastStepReadTrue' = FALSE
  /\ cancelSeenAt' = "none"
  /\ cancelledTimeout' = "none"
  /\ cancelledWarned' = 0
  /\ UNCHANGED locals
  /\ liveThreads' = liveThreads + 1
  /\ receivedLog' = <<>>
  /\ sentLog' = <<>>
  /\ UNCHANGED <<opsInFlight, trigRec, endpoints>>

\* do_stop, first half: stop_working_thread() clears the flag.
do_stop_request ==
  /\ ctl = "running"
  /\ running_flag' = FALSE
  /\ ctl' = "stopping"
  /\ inFlightAtStop' = (pc \in InFlightPcs)
  /\ UNCHANGED <<runs, pc, locals, warnings, summaries, callObs, reqTimeouts, recvTimeouts,
                 sendTimeouts, recvDelivered, lastStepReadTrue, cancelSeenAt, cancelledTimeout,
                 cancelledWarned>>
  /\ UNCHANGED <<threadObs, itemObs, endpoints>>

\* Variant of do_stop_return: the flag is cleared but the thread is not joined.
do_stop_return_nojoin ==
  /\ ctl = "stopping"
  /\ ctl' = "stopped"
  /\ UNCHANGED <<running_flag, runs, pc, locals, obs>>
  /\ UNCHANGED <<threadObs, itemObs, endpoints>>

\* do_stop, second half: the join returns once do_work has returned; do_stop returns.
do_stop_return ==
  /\ ctl = "stopping"
  /\ pc = "done"
  /\ ctl' = "stopped"
  /\ UNCHANGED <<running_flag, runs, pc, locals, obs>>
  /\ UNCHANGED <<threadObs, itemObs, endpoints>>

\* ---- worker thread: do_work ----

\* Variant of do_work_entry: the counters keep their values from the previous loop execution.
do_work_entry_noreset ==
  /\ pc = "entry"
  /\ trigRecLeftToReceive' = 0
  /\ trigRecWasSuccessfullyReceived' = FALSE
  /\ trigRecWasSuccessfullySent' = FALSE
  /\ pc' = "outer_check"
  /\ UNCHANGED <<running_flag, ctl, runs, TRsToRequestEachTime, counters, obs>>
  /\ UNCHANGED <<threadObs, itemObs, endpoints>>

\* lines 97-102: the counters are initialised.
do_work_entry ==
  /\ pc = "entry"
  /\ requestCount' = 0
  /\ requestedTRCount' = 0
  /\ receivedCount' = 0
  /\ sentCount' = 0
  /\ trigRecLeftToReceive' = 0
  /\ trigRecWasSuccessfullyReceived' = FALSE
  /\ trigRecWasSuccessfullySent' = FALSE
  /\ pc' = "outer_check"
  /\ UNCHANGED <<running_flag, ctl, runs, TRsToRequestEachTime, obs>>
  /\ UNCHANGED <<threadObs, itemObs, endpoints>>

\* line 104: while (running_flag.load()); on true the request is built (105-114).
outer_loop_check ==
  /\ pc = "outer_check"
  /\ IF running_flag
       THEN /\ pc' = "req_call"
            /\ lastStepReadTrue' = TRUE
            /\ UNCHANGED cancelSeenAt
       ELSE /\ pc' = "exiting"
            /\ lastStepReadTrue' = FALSE
            /\ cancelSeenAt' = ObserveCancel("outer")
  /\ UNCHANGED <<running_flag, ctl, runs, locals, timeoutObs, summaries, inFlightAtStop, callObs, recvDelivered>>
  /\ UNCHANGED <<threadObs, itemObs, endpoints>>

\* line 119: requestSender_->send(trReq, requestSendTimeout_) is invoked.
request_send_call ==
  /\ pc = "req_call"
  /\ MayCall
  /\ BeginCall
  /\ pc' = "req_inflight"
  /\ UNCHANGED <<running_flag, ctl, runs, locals, timeoutObs, summaries, inFlightAtStop, recvDelivered, cancelSeenAt>>
  /\ UNCHANGED <<liveThreads, itemObs, endpoints>>

\* Variant of request_send_ok: the cumulative count advances by one per request.
request_send_ok_byone ==
  /\ pc = "req_inflight"
  /\ requestCount' = requestCount + 1
  /\ requestedTRCount' = requestedTRCount + 1
  /\ trigRecLeftToReceive' = TRsToRequestEachTime
  /\ pc' = "owed_check"
  /\ UNCHANGED <<running_flag, ctl, runs, TRsToRequestEachTime, receivedCount, sentCount,
                 trigRecWasSuccessfullyReceived, trigRecWasSuccessfullySent, obs>>
  /\ EndCall
  /\ UNCHANGED <<liveThreads, itemObs, endpoints>>

\* lines 119, 131-137: the send returned; the counters are advanced.
request_send_ok ==
  /\ pc = "req_inflight"
  /\ requestCount' = requestCount + 1
  /\ requestedTRCount' = requestedTRCount + TRsToRequestEachTime
  /\ trigRecLeftToReceive' = TRsToRequestEachTime
  /\ pc' = "owed_check"
  /\ UNCHANGED <<running_flag, ctl, runs, TRsToRequestEachTime, receivedCount, sentCount,
                 trigRecWasSuccessfullyReceived, trigRecWasSuccessfullySent, obs>>
  /\ EndCall
  /\ UNCHANGED <<liveThreads, itemObs, endpoints>>

\* Variant of request_send_timeout: the send is retried without going back to the loop condition.
request_send_timeout_retry ==
  /\ pc = "req_inflight"
  /\ reqTimeouts' = reqTimeouts + 1
  /\ NoteTimeout("req", 1)
  /\ pc' = "req_call"
  /\ UNCHANGED <<running_flag, ctl, runs, locals, summaries, inFlightAtStop, callObs, recvTimeouts, sendTimeouts,
                 recvDelivered, lastStepReadTrue, cancelSeenAt>>
  /\ UNCHANGED <<liveThreads, itemObs, endpoints>>

\* Variant of request_send_timeout: the timeout leaves the outer loop (break instead of continue).
request_send_timeout_break ==
  /\ pc = "req_inflight"
  /\ reqTimeouts' = reqTimeouts + 1
  /\ NoteTimeout("req", 1)
  /\ pc' = "exiting"
  /\ UNCHANGED <<running_flag, ctl, runs, locals, summaries, inFlightAtStop, callObs, recvTimeouts, sendTimeouts,
                 recvDelivered, lastStepReadTrue, cancelSeenAt>>
  /\ UNCHANGED <<liveThreads, itemObs, endpoints>>

\* Variant of request_send_timeout: the counters are advanced before the send is known to have succeeded.
request_send_timeout_counted ==
  /\ pc = "req_inflight"
  /\ reqTimeouts' = reqTimeouts + 1
  /\ NoteTimeout("req", 1)
  /\ requestCount' = requestCount + 1
  /\ requestedTRCount' = requestedTRCount + TRsToRequestEachTime
  /\ pc' = "outer_check"
  /\ UNCHANGED <<running_flag, ctl, runs, TRsToRequestEachTime, receivedCount, sentCount,
                 trigRecLeftToReceive, trigRecWasSuccessfullyReceived, trigRecWasSuccessfullySent,
                 summaries, inFlightAtStop, callObs, recvTimeouts, sendTimeouts,
                 recvDelivered, lastStepReadTrue, cancelSeenAt>>
  /\ UNCHANGED <<liveThreads, itemObs, endpoints>>

\* Variant of request_send_timeout: the catch block lacks the continue and falls through to line 131.
request_send_timeout_fallthrough ==
  /\ pc = "req_inflight"
  /\ reqTimeouts' = reqTimeouts + 1
  /\ NoteTimeout("req", 1)
  /\ requestCount' = requestCount + 1
  /\ requestedTRCount' = requestedTRCount + TRsToRequestEachTime
  /\ trigRecLeftToReceive' = TRsToRequestEachTime
  /\ pc' = "owed_check"
  /\ UNCHANGED <<running_flag, ctl, runs, TRsToRequestEachTime, receivedCount, sentCount,
                 trigRecWasSuccessfullyReceived, trigRecWasSuccessfullySent,
                 summaries, inFlightAtStop, callObs, recvTimeouts, sendTimeouts,
                 recvDelivered, lastStepReadTrue, cancelSeenAt>>
  /\ UNCHANGED <<liveThreads, itemObs, endpoints>>

\* lines 121-128: the send timed out; a warning is emitted and the loop continues.
request_send_timeout ==
  /\ pc = "req_inflight"
  /\ reqTimeouts' = reqTimeouts + 1
  /\ NoteTimeout("req", 1)
  /\ pc' = "outer_check"
  /\ UNCHANGED <<running_flag, ctl, runs, locals, summaries, inFlightAtStop, callObs, recvTimeouts, sendTimeouts,
                 recvDelivered, lastStepReadTrue, cancelSeenAt>>
  /\ UNCHANGED <<liveThreads, itemObs, endpoints>>

\* Variant of owed_loop_check: the loop condition is off by one (trigRecLeftToReceive > 1).
owed_loop_check_offbyone ==
  /\ pc = "owed_check"
  /\ IF trigRecLeftToReceive > 1
       THEN IF running_flag
              THEN /\ pc' = "recv_check"
                   /\ trigRecWasSuccessfullyReceived' = FALSE
                   /\ lastStepReadTrue' = TRUE
                   /\ UNCHANGED cancelSeenAt
              ELSE /\ pc' = "outer_check"
                   /\ lastStepReadTrue' = FALSE
                   /\ cancelSeenAt' = ObserveCancel("owed")
                   /\ UNCHANGED trigRecWasSuccessfullyReceived
       ELSE /\ pc' = "outer_check"
            /\ lastStepReadTrue' = FALSE
            /\ UNCHANGED <<cancelSeenAt, trigRecWasSuccessfullyReceived>>
  /\ UNCHANGED <<running_flag, ctl, runs, TRsToRequestEachTime, counters, trigRecLeftToReceive,
                 trigRecWasSuccessfullySent, timeoutObs, summaries, inFlightAtStop, callObs, recvDelivered>>
  /\ trigRec' = IF trigRecLeftToReceive > 1 /\ running_flag THEN EmptyRecord ELSE trigRec
  /\ UNCHANGED <<threadObs, receivedLog, sentLog, endpoints>>

\* line 138: while (trigRecLeftToReceive > 0 && running_flag.load()); 140-141 on true.
owed_loop_check ==
  /\ pc = "owed_check"
  /\ IF trigRecLeftToReceive > 0
       THEN IF running_flag
              THEN /\ pc' = "recv_check"
                   /\ trigRecWasSuccessfullyReceived' = FALSE
                   /\ lastStepReadTrue' = TRUE
                   /\ UNCHANGED cancelSeenAt
              ELSE /\ pc' = "outer_check"
                   /\ lastStepReadTrue' = FALSE
                   /\ cancelSeenAt' = ObserveCancel("owed")
                   /\ UNCHANGED trigRecWasSuccessfullyReceived
       ELSE /\ pc' = "outer_check"
            /\ lastStepReadTrue' = FALSE
            /\ UNCHANGED <<cancelSeenAt, trigRecWasSuccessfullyReceived>>
  /\ UNCHANGED <<running_flag, ctl, runs, TRsToRequestEachTime, counters, trigRecLeftToReceive,
                 trigRecWasSuccessfullySent, timeoutObs, summaries, inFlightAtStop, callObs, recvDelivered>>
  /\ trigRec' = IF trigRecLeftToReceive > 0 /\ running_flag THEN EmptyRecord ELSE trigRec
  /\ UNCHANGED <<threadObs, receivedLog, sentLog, endpoints>>

\* Variant of receive_retry_check: a received item is passed on without being counted.
receive_retry_check_nocount ==
  /\ pc = "recv_check"
  /\ IF ~trigRecWasSuccessfullyReceived
       THEN IF running_flag
              THEN /\ pc' = "recv_call"
                   /\ lastStepReadTrue' = TRUE
                   /\ UNCHANGED <<cancelSeenAt, trigRecWasSuccessfullySent>>
              ELSE /\ pc' = "owed_check"
                   /\ lastStepReadTrue' = FALSE
                   /\ cancelSeenAt' = ObserveCancel("recv")
                   /\ UNCHANGED trigRecWasSuccessfullySent
       ELSE /\ pc' = "send_check"
            /\ trigRecWasSuccessfullySent' = FALSE
            /\ lastStepReadTrue' = FALSE
            /\ UNCHANGED cancelSeenAt
  /\ UNCHANGED <<running_flag, ctl, runs, TRsToRequestEachTime, counters,
                 trigRecLeftToReceive, trigRecWasSuccessfullyReceived,
                 timeoutObs, summaries, inFlightAtStop, callObs, recvDelivered>>
  /\ UNCHANGED <<threadObs, itemObs, endpoints>>

\* line 142: while (!trigRecWasSuccessfullyReceived && running_flag.load());
\* when the loop is left, lines 163-169: if received, ++receivedCount and the send loop is entered.
receive_retry_check ==
  /\ pc = "recv_check"
  /\ IF ~trigRecWasSuccessfullyReceived
       THEN IF running_flag
              THEN /\ pc' = "recv_call"
                   /\ lastStepReadTrue' = TRUE
                   /\ UNCHANGED <<cancelSeenAt, receivedCount, trigRecWasSuccessfullySent>>
              ELSE /\ pc' = "owed_check"
                   /\ lastStepReadTrue' = FALSE
                   /\ cancelSeenAt' = ObserveCancel("recv")
                   /\ UNCHANGED <<receivedCount, trigRecWasSuccessfullySent>>
       ELSE /\ pc' = "send_check"
            /\ receivedCount' = receivedCount + 1
            /\ trigRecWasSuccessfullySent' = FALSE
            /\ lastStepReadTrue' = FALSE
            /\ UNCHANGED cancelSeenAt
  /\ UNCHANGED <<running_flag, ctl, runs, TRsToRequestEachTime, requestCount, requestedTRCount,
                 sentCount, trigRecLeftToReceive, trigRecWasSuccessfullyReceived,
                 timeoutObs, summaries, inFlightAtStop, callObs, recvDelivered>>
  /\ UNCHANGED <<threadObs, itemObs, endpoints>>

\* line 147: dataReceiver_->receive(trigRec, dataReceiveTimeout_) is invoked.
data_receive_call ==
  /\ pc = "recv_call"
  /\ MayCall
  /\ BeginCall
  /\ pc' = "recv_inflight"
  /\ UNCHANGED <<running_flag, ctl, runs, locals, timeoutObs, summaries, inFlightAtStop, recvDelivered, cancelSeenAt>>
  /\ UNCHANGED <<liveThreads, itemObs, endpoints>>

\* lines 147-149: the receive returned a Trigger Record.
data_receive_ok ==
  /\ pc = "recv_inflight"
  /\ trigRecWasSuccessfullyReceived' = TRUE
  /\ trigRecLeftToReceive' = trigRecLeftToReceive - 1
  /\ recvDelivered' = recvDelivered + 1
  /\ pc' = "recv_check"
  /\ UNCHANGED <<running_flag, ctl, runs, TRsToRequestEachTime, counters,
                 trigRecWasSuccessfullySent, timeoutObs, summaries, inFlightAtStop, callObs,
                 lastStepReadTrue, cancelSeenAt>>
  /\ \E rec \in Payloads:
       /\ trigRec' = rec
       /\ receivedLog' = Append(receivedLog, rec)
  /\ EndCall
  /\ UNCHANGED <<liveThreads, sentLog, endpoints>>

\* Variant of data_receive_timeout: the receive is retried without re-reading the flag.
data_receive_timeout_retry ==
  /\ pc = "recv_inflight"
  /\ recvTimeouts' = recvTimeouts + 1
  /\ NoteTimeout("recv", 1)
  /\ pc' = "recv_call"
  /\ UNCHANGED <<running_flag, ctl, runs, locals, summaries, inFlightAtStop, callObs, reqTimeouts, sendTimeouts,
                 recvDelivered, lastStepReadTrue, cancelSeenAt>>
  /\ UNCHANGED <<liveThreads, itemObs, endpoints>>

\* Variant of data_receive_timeout: the timed-out receive is taken for a delivery.
data_receive_timeout_asok ==
  /\ pc = "recv_inflight"
  /\ recvTimeouts' = recvTimeouts + 1
  /\ NoteTimeout("recv", 1)
  /\ trigRecWasSuccessfullyReceived' = TRUE
  /\ trigRecLeftToReceive' = trigRecLeftToReceive - 1
  /\ pc' = "recv_check"
  /\ UNCHANGED <<running_flag, ctl, runs, TRsToRequestEachTime, counters,
                 trigRecWasSuccessfullySent, summaries, inFlightAtStop, callObs, reqTimeouts, sendTimeouts,
                 recvDelivered, lastStepReadTrue, cancelSeenAt>>
  /\ UNCHANGED <<liveThreads, itemObs, endpoints>>

\* Variant of data_receive_timeout: the same timeout is reported twice.
data_receive_timeout_twice ==
  /\ pc = "recv_inflight"
  /\ recvTimeouts' = recvTimeouts + 1
  /\ NoteTimeout("recv", 2)
  /\ pc' = "recv_check"
  /\ UNCHANGED <<running_flag, ctl, runs, locals, summaries, inFlightAtStop, callObs, reqTimeouts, sendTimeouts,
                 recvDelivered, lastStepReadTrue, cancelSeenAt>>
  /\ UNCHANGED <<liveThreads, itemObs, endpoints>>

\* lines 151-160: the receive timed out; a warning is emitted.
data_receive_timeout ==
  /\ pc = "recv_inflight"
  /\ recvTimeouts' = recvTimeouts + 1
  /\ NoteTimeout("recv", 1)
  /\ pc' = "recv_check"
  /\ UNCHANGED <<running_flag, ctl, runs, locals, summaries, inFlightAtStop, callObs, reqTimeouts, sendTimeouts,
                 recvDelivered, lastStepReadTrue, cancelSeenAt>>
  /\ UNCHANGED <<liveThreads, itemObs, endpoints>>

\* Variant of send_retry_check: on cancellation do_work returns at once, without the summary.
send_retry_check_return ==
  /\ pc = "send_check"
  /\ IF ~trigRecWasSuccessfullySent
       THEN IF running_flag
              THEN /\ pc' = "send_call"
                   /\ lastStepReadTrue' = TRUE
                   /\ UNCHANGED cancelSeenAt
              ELSE /\ pc' = "done"
                   /\ lastStepReadTrue' = FALSE
                   /\ cancelSeenAt' = ObserveCancel("send")
       ELSE /\ pc' = "owed_check"
            /\ lastStepReadTrue' = FALSE
            /\ UNCHANGED cancelSeenAt
  /\ UNCHANGED <<running_flag, ctl, runs, locals, timeoutObs, summaries, inFlightAtStop, callObs, recvDelivered>>
  /\ UNCHANGED <<threadObs, itemObs, endpoints>>

\* Variant of send_retry_check: the retry loop does not read the flag (while (!sent)).
send_retry_check_noflag ==
  /\ pc = "send_check"
  /\ IF ~trigRecWasSuccessfullySent
       THEN /\ pc' = "send_call"
            /\ lastStepReadTrue' = FALSE
            /\ UNCHANGED cancelSeenAt
       ELSE /\ pc' = "owed_check"
            /\ lastStepReadTrue' = FALSE
            /\ UNCHANGED cancelSeenAt
  /\ UNCHANGED <<running_flag, ctl, runs, locals, timeoutObs, summaries, inFlightAtStop, callObs, recvDelivered>>
  /\ UNCHANGED <<threadObs, itemObs, endpoints>>

\* line 170: while (!trigRecWasSuccessfullySent && running_flag.load()).
send_retry_check ==
  /\ pc = "send_check"
  /\ IF ~trigRecWasSuccessfullySent
       THEN IF running_flag
              THEN /\ pc' = "send_call"
                   /\ lastStepReadTrue' = TRUE
                   /\ UNCHANGED cancelSeenAt
              ELSE /\ pc' = "owed_check"
                   /\ lastStepReadTrue' = FALSE
                   /\ cancelSeenAt' = ObserveCancel("send")
       ELSE /\ pc' = "owed_check"
            /\ lastStepReadTrue' = FALSE
            /\ UNCHANGED cancelSeenAt
  /\ UNCHANGED <<running_flag, ctl, runs, locals, timeoutObs, summaries, inFlightAtStop, callObs, recvDelivered>>
  /\ UNCHANGED <<threadObs, itemObs, endpoints>>

\* line 175: resultSender_->send(trigRec, resultSendTimeout_) is invoked.
result_send_call ==
  /\ pc = "send_call"
  /\ MayCall
  /\ BeginCall
  /\ pc' = "send_inflight"
  /\ UNCHANGED <<running_flag, ctl, runs, locals, timeoutObs, summaries, inFlightAtStop, recvDelivered, cancelSeenAt>>
  /\ UNCHANGED <<liveThreads, itemObs, endpoints>>

\* Variant of result_send_ok: a default-constructed record is sent instead of the received one.
result_send_ok_default ==
  /\ pc = "send_inflight"
  /\ trigRecWasSuccessfullySent' = TRUE
  /\ sentCount' = sentCount + 1
  /\ pc' = "send_check"
  /\ UNCHANGED <<running_flag, ctl, runs, TRsToRequestEachTime, requestCount, requestedTRCount,
                 receivedCount, trigRecLeftToReceive, trigRecWasSuccessfullyReceived, obs>>
  /\ sentLog' = Append(sentLog, EmptyRecord)
  /\ EndCall
  /\ UNCHANGED <<liveThreads, trigRec, receivedLog, endpoints>>

\* lines 175-177: the send returned.
result_send_ok ==
  /\ pc = "send_inflight"
  /\ trigRecWasSuccessfullySent' = TRUE
  /\ sentCount' = sentCount + 1
  /\ pc' = "send_check"
  /\ UNCHANGED <<running_flag, ctl, runs, TRsToRequestEachTime, requestCount, requestedTRCount,
                 receivedCount, trigRecLeftToReceive, trigRecWasSuccessfullyReceived, obs>>
  /\ sentLog' = Append(sentLog, trigRec)
  /\ EndCall
  /\ UNCHANGED <<liveThreads, trigRec, receivedLog, endpoints>>

\* Variant of result_send_timeout: the item is given up and the loop goes on to the next one.
result_send_timeout_drop ==
  /\ pc = "send_inflight"
  /\ sendTimeouts' = sendTimeouts + 1
  /\ NoteTimeout("send", 0)
  /\ pc' = "owed_check"
  /\ UNCHANGED <<running_flag, ctl, runs, locals, summaries, inFlightAtStop, callObs, reqTimeouts, recvTimeouts,
                 recvDelivered, lastStepReadTrue, cancelSeenAt>>
  /\ UNCHANGED <<liveThreads, itemObs, endpoints>>

\* lines 179-183: the send timed out; the catch block is empty.
result_send_timeout ==
  /\ pc = "send_inflight"
  /\ sendTimeouts' = sendTimeouts + 1
  /\ NoteTimeout("send", 0)
  /\ pc' = "send_check"
  /\ UNCHANGED <<running_flag, ctl, runs, locals, summaries, inFlightAtStop, callObs, reqTimeouts, recvTimeouts,
                 recvDelivered, lastStepReadTrue, cancelSeenAt>>
  /\ UNCHANGED <<liveThreads, itemObs, endpoints>>

\* lines 191-198: the summary is emitted and do_work returns.
do_work_exit ==
  /\ pc = "exiting"
  /\ summaries' = summaries + 1
  /\ pc' = "done"
  /\ UNCHANGED <<running_flag, ctl, runs, locals, timeoutObs, callObs, inFlightAtStop,
                 recvDelivered, lastStepReadTrue, cancelSeenAt>>
  /\ liveThreads' = liveThreads - 1
  /\ UNCHANGED <<opsInFlight, itemObs, endpoints>>

Worker ==
  \/ do_work_entry
  \/ outer_loop_check
  \/ request_send_call
  \/ request_send_ok
  \/ request_send_timeout
  \/ owed_loop_check
  \/ receive_retry_check
  \/ data_receive_call
  \/ data_receive_ok
  \/ data_receive_timeout
  \/ send_retry_check
  \/ result_send_call
  \/ result_send_ok
  \/ result_send_timeout
  \/ do_work_exit

Next ==
  \/ init
  \/ do_start
  \/ do_stop_request
  \/ do_stop_return
  \/ Worker

Spec == Init /\ [][Next]_vars

\* The worker thread is scheduled and every Endpoint call returns (success or timeout).
FairSpec == Spec /\ WF_vars(Worker)

TypeOK ==
  /\ running_flag \in BOOLEAN
  /\ ctl \in {"constructed", "initialized", "init_failed", "running", "stopping", "stopped"}
  /\ runs \in 0..MaxRuns
  /\ pc \in WorkerPcs
  /\ TRsToRequestEachTime \in 1..MaxBatch
  /\ requestCount \in Nat /\ requestedTRCount \in Nat
  /\ receivedCount \in Nat /\ sentCount \in Nat
  /\ trigRecLeftToReceive \in 0..MaxBatch
  /\ cancelSeenAt \in {"none", "outer", "owed", "recv", "send"}
  /\ cancelledTimeout \in {"none", "req", "recv", "send"}
  /\ liveThreads \in Nat /\ opsInFlight \in Nat
  /\ trigRec \in Payloads \cup {EmptyRecord}
  /\ receivedLog \in Seq(Payloads) /\ sentLog \in Seq(Payloads \cup {EmptyRecord})
  /\ {requestSender_, dataReceiver_, resultSender_} \subseteq {NullPtr, Constructed}
  /\ initError \in {"none", "request connection", "data source address", "result destination address"}
  /\ constructCalls \in 0..3

\* ---- properties ----

OpPcs == CallPcs \cup InFlightPcs
InDoWork == pc \notin {"idle", "entry"}

\* C1: once do_stop() has returned, do_work has left its outer loop and finished,
\* and no Endpoint operation is begun or in flight from then on.
C1_NoEndpointCallAfterStop ==
  /\ [](ctl = "stopped" => (pc = "done" /\ ~running_flag))
  /\ [][(ctl = "stopped" /\ ctl' = "stopped") => opsStarted' = opsStarted]_vars

\* do_stop has returned after a loop execution in which a call was begun after the flag was cleared.
C1_Witness == ctl = "stopped" /\ opsSinceStop = 1 /\ opsStarted >= 2

\* C2: after the running flag is cleared the worker performs at most one further
\* Endpoint operation (one begun after the stop request, or the one in flight at it, never
\* both and never two), and (every call returning) it always reaches the end of do_work.
C2_ShutdownWithinOneCall ==
  /\ [](opsSinceStop + (IF inFlightAtStop THEN 1 ELSE 0) <= 1)
  /\ ((ctl = "stopping") ~> (pc = "done"))

\* The loop ended after exactly one call begun after the stop request, which timed out.
C2_Witness == pc = "done" /\ opsSinceStop = 1 /\ cancelledTimeout = "send"

\* C3: items-requested-cumulative equals N times requests-sent in every state of do_work.
C3_RequestedIsNTimesRequests ==
  InDoWork => requestedTRCount = TRsToRequestEachTime * requestCount

\* stop has returned after two requests of two items each.
C3_Witness == ctl = "stopped" /\ TRsToRequestEachTime = 2 /\ requestCount = 2

\* C4: every timeout of each of the three Endpoint operations emits one warning.
C4_WarningOnEveryTimeout == warnings = reqTimeouts + recvTimeouts + sendTimeouts

\* C5 as stated: a timeout that returns while the flag is cleared emits no warning and is not retried.
C5_CancelledTimeoutSilent ==
  /\ cancelledWarned = 0
  /\ cancelledTimeout # "none" => pc \notin OpPcs

\* C5 as amended: a timeout that returns while the flag is cleared is not retried (no
\* further Endpoint call is begun); the request-send and data-receive timeouts still emit
\* their warning, the result-send timeout emits none.
C5_CancelledTimeoutNotRetried ==
  /\ cancelledTimeout # "none" => pc \notin OpPcs
  /\ cancelledTimeout \in {"req", "recv"} => cancelledWarned = 1
  /\ cancelledTimeout \in {"none", "send"} => cancelledWarned = 0

\* A data receive timed out after the stop request and the loop then ended.
C5_Witness == pc = "done" /\ cancelledTimeout = "recv" /\ cancelledWarned = 1

\* C6: the summary event is emitted exactly once per loop execution, after the last
\* Endpoint operation, wherever cancellation was observed.
C6_SummaryExactlyOnce ==
  /\ [](InDoWork => summaries = IF pc = "done" THEN 1 ELSE 0)
  /\ [](ctl = "stopped" => summaries = 1)
  /\ [][(summaries >= 1 /\ summaries' >= 1) => opsStarted' = opsStarted]_vars

\* The loop ended with its summary after cancellation was observed in the result-send retry loop.
C6_Witness == pc = "done" /\ summaries = 1 /\ cancelSeenAt = "send" /\ opsStarted >= 3

\* C7: while the data endpoint never delivers, items-received stays 0; with N=1, a first
\* request send that succeeds and a stop observed in the receive retry loop, the loop ends
\* with requests-sent=1, items-received=0, items-forwarded=0.
C7_NoDeliveryNoReceived ==
  /\ []((InDoWork /\ recvDelivered = 0) => receivedCount = 0)
  /\ []((pc = "done" /\ TRsToRequestEachTime = 1 /\ reqTimeouts = 0 /\ recvDelivered = 0
           /\ cancelSeenAt = "recv")
          => (requestCount = 1 /\ receivedCount = 0 /\ sentCount = 0 /\ summaries = 1))
  /\ ((pc \in {"recv_check", "recv_call", "recv_inflight"} /\ ~running_flag) ~> (pc = "done"))

\* The scenario: one request, receives that only timed out, stop seen in the receive retry loop.
C7_Witness ==
  /\ pc = "done" /\ TRsToRequestEachTime = 1 /\ reqTimeouts = 0 /\ recvDelivered = 0
  /\ cancelSeenAt = "recv" /\ recvTimeouts >= 2 /\ requestCount = 1

\* C8: an Endpoint operation is invoked only directly after a read of the flag that saw
\* it set; once the worker has read it cleared it performs no Endpoint operation.
C8_CallOnlyAfterFlagRead ==
  /\ pc \in CallPcs => (lastStepReadTrue /\ cancelSeenAt = "none")
  /\ cancelSeenAt # "none" => pc \notin OpPcs

\* A call begun after the stop request returned, then the flag was read cleared in the owed-items loop.
C8_Witness == pc = "done" /\ cancelSeenAt = "owed" /\ opsSinceStop = 1

\* C9: at each data receive call every received item has been forwarded; a timed-out
\* result send is repeated until it succeeds or the flag is read cleared.
C9_NoItemDropped ==
  /\ [](pc \in {"recv_call", "recv_inflight"} => receivedCount = sentCount)
  /\ [][(pc = "send_inflight" /\ sendTimeouts' = sendTimeouts + 1)
          => (pc' = "send_check" /\ ~trigRecWasSuccessfullySent')]_vars
  /\ [][(pc = "send_check" /\ pc' # pc /\ ~trigRecWasSuccessfullySent /\ running_flag)
          => pc' = "send_call"]_vars

\* A receive is invoked after an item whose result send first timed out and then succeeded.
C9_Witness == pc = "recv_call" /\ sendTimeouts >= 1 /\ receivedCount >= 1

\* C10: at each request send all items owed by earlier requests have been received and
\* forwarded, and no remaining-count is carried into the request.
C10_NoPipelining ==
  pc \in {"req_call", "req_inflight"} =>
    /\ requestedTRCount = receivedCount
    /\ receivedCount = sentCount
    /\ trigRecLeftToReceive = 0

\* A second request is about to be sent after a batch of two was received and forwarded.
C10_Witness == pc = "req_call" /\ TRsToRequestEachTime = 2 /\ requestCount = 1 /\ sentCount = 2

AllTimeouts == reqTimeouts + recvTimeouts + sendTimeouts

\* C11: timeouts never end the loop: the worker is at Exiting only if stop has been
\* requested, no timeout step leads there, and a result send that times out does not
\* increment items-forwarded (only a successful result send does).
C11_TimeoutsNeverEndLoop ==
  /\ [](pc \in {"exiting", "done"} => (~running_flag /\ ctl \in {"stopping", "stopped"}))
  /\ [][(AllTimeouts' = AllTimeouts + 1) => pc' \notin {"exiting", "done"}]_vars
  /\ [][(sendTimeouts' = sendTimeouts + 1) => sentCount' = sentCount]_vars
  /\ [][(sentCount' = sentCount + 1) => (pc = "send_inflight" /\ sendTimeouts' = sendTimeouts)]_vars

\* The loop is still running after a receive timeout and two result-send timeouts, nothing forwarded.
C11_Witness ==
  /\ pc = "send_check" /\ running_flag /\ recvTimeouts >= 1 /\ sendTimeouts >= 2
  /\ receivedCount = 1 /\ sentCount = 0

\* C12: on the data-receive path every timeout emits exactly one warning and a delivery
\* emits none, so k timeouts followed by a delivery give exactly k warnings; each delivery
\* is counted exactly once in items-received (at line 165, the step after the delivery).
C12_ReceiveWarningsExact ==
  /\ [][(recvTimeouts' = recvTimeouts + 1) => warnings' = warnings + 1]_vars
  /\ [][(recvDelivered' = recvDelivered + 1) => warnings' = warnings]_vars
  /\ [][(runs' = runs) => warnings' \in {warnings, warnings + 1}]_vars
  /\ []((reqTimeouts = 0 /\ sendTimeouts = 0) => warnings = recvTimeouts)
  /\ [](InDoWork => receivedCount + (IF pc = "recv_check" /\ trigRecWasSuccessfullyReceived
                                       THEN 1 ELSE 0) = recvDelivered)

\* The scenario: no cancellation, the request succeeded, the receive timed out twice and then delivered.
C12_Witness ==
  /\ ctl = "running" /\ reqTimeouts = 0 /\ recvTimeouts = 2 /\ recvDelivered = 1
  /\ warnings = 2 /\ receivedCount = 1 /\ pc = "send_check"

\* A step of the request phase that advances requests-sent by 1 and items-requested by N.
RequestCounted ==
  /\ requestCount' = requestCount + 1
  /\ requestedTRCount' = requestedTRCount + TRsToRequestEachTime

RequestNotCounted == requestCount' = requestCount /\ requestedTRCount' = requestedTRCount

\* C13 as stated: the two counters advance by 1 and N on completion of the request send,
\* and once stop has been requested before the send completes neither counter advances.
C13_NoCountOnceStopRequested ==
  /\ [][(pc = "req_inflight" /\ pc' = "owed_check") => RequestCounted]_vars
  /\ [][(pc \in {"outer_check", "req_call", "req_inflight"} /\ ~running_flag) => RequestNotCounted]_vars

\* C13 as amended: the two counters advance, by 1 and N, exactly when the request send
\* returns successfully (also when stop was requested while it was pending); when the flag
\* is read cleared at the outer loop check the loop goes to Exiting without counting, and a
\* send that times out is not counted.
C13_CountOnCompletedSendOnly ==
  /\ [][(pc = "req_inflight" /\ pc' = "owed_check") => RequestCounted]_vars
  /\ [][(pc # "entry" /\ ~RequestNotCounted)
          => (pc = "req_inflight" /\ reqTimeouts' = reqTimeouts /\ RequestCounted)]_vars
  /\ [][(pc = "outer_check" /\ pc' # pc /\ ~running_flag)
          => (pc' = "exiting" /\ RequestNotCounted)]_vars
  /\ [][(reqTimeouts' = reqTimeouts + 1) => (RequestNotCounted /\ pc' = "outer_check")]_vars

\* The request send was in flight at the stop request, returned successfully and was counted.
C13_Witness == pc = "done" /\ inFlightAtStop /\ opsStarted = 1 /\ requestCount = 1

CountersZero == requestCount = 0 /\ requestedTRCount = 0 /\ receivedCount = 0 /\ sentCount = 0

\* C14: none of the four counters decreases in a step of a loop execution, and all four
\* are 0 at the beginning of every loop execution, also one started after a previous stop.
C14_CountersMonotoneFromZero ==
  /\ [][(pc # "entry") => (/\ requestCount' >= requestCount
                           /\ requestedTRCount' >= requestedTRCount
                           /\ receivedCount' >= receivedCount
                           /\ sentCount' >= sentCount)]_vars
  /\ [][(pc = "entry" /\ pc' # "entry") => CountersZero']_vars
  /\ []((InDoWork /\ opsStarted = 0) => CountersZero)

\* The second loop execution stands at its first loop check with all counters 0.
C14_Witness == runs = 2 /\ pc = "outer_check" /\ ctl = "running" /\ opsStarted = 0 /\ CountersZero

ReceivePhasePcs == {"owed_check", "recv_check", "recv_call", "recv_inflight",
                    "send_check", "send_call", "send_inflight"}

\* C18: a timed-out request send leaves the four counters and the owed-items count
\* unchanged, emits its warning and goes back to the outer loop check, from where the
\* worker either sends a fresh request or exits; the receive phase is entered only from a
\* request send that did not time out.
C18_TimedOutRequestNotAwaited ==
  /\ [][(reqTimeouts' = reqTimeouts + 1)
          => (/\ UNCHANGED counters
              /\ trigRecLeftToReceive' = trigRecLeftToReceive
              /\ warnings' = warnings + 1
              /\ pc' = "outer_check")]_vars
  /\ [][(pc = "outer_check" /\ pc' # pc)
          => (IF running_flag THEN pc' = "req_call" ELSE pc' = "exiting")]_vars
  /\ [][(pc \notin ReceivePhasePcs /\ pc' \in ReceivePhasePcs)
          => (pc = "req_inflight" /\ reqTimeouts' = reqTimeouts /\ requestCount' = requestCount + 1)]_vars

\* After one timed-out request send, a fresh request is about to be sent; nothing was counted.
C18_Witness ==
  /\ pc = "req_call" /\ reqTimeouts = 1 /\ opsStarted = 1 /\ warnings = 1
  /\ CountersZero /\ trigRecLeftToReceive = 0

\* An item has been delivered (line 149) and is not yet counted (line 165).
DeliveredNotCounted == IF pc = "recv_check" /\ trigRecWasSuccessfullyReceived THEN 1 ELSE 0

CounterOrder ==
  /\ sentCount <= receivedCount
  /\ receivedCount <= requestedTRCount
  /\ receivedCount - sentCount \in {0, 1}

DifferOnlyAfterCancelledBatch ==
  (pc \in {"exiting", "done"} /\ ~(requestedTRCount = receivedCount /\ receivedCount = sentCount))
    => cancelSeenAt \in {"owed", "recv", "send"}

\* C19 as stated: forwarded <= received <= requested, received - forwarded is 0 or 1, in
\* the receive phase the owed-items count equals requested minus received, and the counters
\* differ at Exiting only when cancellation ended a batch early.
C19_OwedIsRequestedMinusReceived ==
  InDoWork =>
    /\ CounterOrder
    /\ pc \in ReceivePhasePcs => trigRecLeftToReceive = requestedTRCount - receivedCount
    /\ DifferOnlyAfterCancelledBatch

\* C19 as amended: as stated, except that between the return of a successful receive
\* (owed count decremented, line 149) and the count of that item (line 165) the owed-items
\* count is one less than requested minus received.
C19_OwedPlusUncountedIsRequestedMinusReceived ==
  InDoWork =>
    /\ CounterOrder
    /\ pc \in ReceivePhasePcs =>
         trigRecLeftToReceive + DeliveredNotCounted = requestedTRCount - receivedCount
    /\ DifferOnlyAfterCancelledBatch

\* In a batch of two, the first item is forwarded and the second is delivered but not yet counted.
C19_Witness ==
  /\ pc = "recv_check" /\ trigRecWasSuccessfullyReceived /\ TRsToRequestEachTime = 2
  /\ requestedTRCount = 2 /\ receivedCount = 1 /\ sentCount = 1 /\ trigRecLeftToReceive = 0

\* C15: at most one thread runs do_work and at most one Endpoint call is in flight, over
\* start/stop cycles in which start is issued only when no loop is running; every call in
\* flight belongs to the one worker thread, and do_start finds no thread and no call left.
C15_SingleWorkerSingleCall ==
  /\ [](liveThreads <= 1 /\ opsInFlight <= 1)
  /\ [](opsInFlight = 1 => (liveThreads = 1 /\ pc \in InFlightPcs))
  /\ [][(runs' = runs + 1) => (liveThreads = 0 /\ opsInFlight = 0)]_vars

\* In the second loop execution, after a stop and a new start, a call is in flight.
C15_Witness == runs = 2 /\ liveThreads = 1 /\ opsInFlight = 1 /\ pc = "recv_inflight"

\* C16: init() constructs the request sender, the data receiver and the result sender in
\* that order; a failing construction ends init() with the InvalidEndpointFatalError for
\* that Endpoint, is attempted once only, and leaves the later Endpoints null.
C16_InitStopsAtFirstFailure ==
  /\ ctl = "constructed" =>
       (constructCalls = 0 /\ {requestSender_, dataReceiver_, resultSender_} = {NullPtr})
  /\ resultSender_ = Constructed => dataReceiver_ = Constructed
  /\ dataReceiver_ = Constructed => requestSender_ = Constructed
  /\ (ctl = "init_failed") <=> (initError # "none")
  /\ initError = "request connection" =>
       (constructCalls = 1 /\ requestSender_ = NullPtr /\ dataReceiver_ = NullPtr
          /\ resultSender_ = NullPtr)
  /\ initError = "data source address" =>
       (constructCalls = 2 /\ requestSender_ = Constructed /\ dataReceiver_ = NullPtr
          /\ resultSender_ = NullPtr)
  /\ initError = "result destination address" =>
       (constructCalls = 3 /\ requestSender_ = Constructed /\ dataReceiver_ = Constructed
          /\ resultSender_ = NullPtr)
  /\ (ctl # "constructed" /\ initError = "none") =>
       (constructCalls = 3 /\ {requestSender_, dataReceiver_, resultSender_} = {Constructed})
  /\ ctl \in {"running", "stopping", "stopped"} => initError = "none"

\* init() failed on the data receiver: the request sender exists, the result sender was not constructed.
C16_Witness ==
  /\ ctl = "init_failed" /\ initError = "data source address"
  /\ requestSender_ = Constructed /\ dataReceiver_ = NullPtr /\ resultSender_ = NullPtr

\* C17: the contents sent to the result endpoint are a prefix of the contents received from
\* the data endpoint, in the same order and unchanged, and lack at most the last received one.
C17_PassThroughInOrder ==
  /\ Len(sentLog) <= Len(receivedLog)
  /\ Len(receivedLog) <= Len(sentLog) + 1
  /\ sentLog = SubSeq(receivedLog, 1, Len(sentLog))
  /\ InDoWork => (Len(sentLog) = sentCount /\ Len(receivedLog) = recvDelivered)

\* Two records of different contents were received and forwarded in their order.
C17_Witness == receivedLog = <<2, 1>> /\ sentLog = <<2, 1>>

====
